---------------------------- MODULE Spec2Model ----------------------------
(***************************************************************************)
(* Model of the claim-debatability cascade                                 *)
(* (module3_debatability_detection.py) and of the evidence harvester       *)
(* (module4_webscraping.py).                                               *)
(*                                                                         *)
(* Text is a sequence of one-character strings, so that lower-casing,      *)
(* whitespace cleaning, substring search and the regular expressions of    *)
(* the source are computed character by character.                         *)
(***************************************************************************)
EXTENDS Integers, Sequences, FiniteSets, TLC

(***************************************************************************)
(* Characters and the string operations of the source.                     *)
(***************************************************************************)
Digits == {"0","1","2","3","4","5","6","7","8","9"}

UpperToLower ==
    [c \in {"A","B","C","D","E","F","G","H","I","J","K","L","M",
            "N","O","P","Q","R","S","T","U","V","W","X","Y","Z"} |->
       CASE c = "A" -> "a" [] c = "B" -> "b" [] c = "C" -> "c" [] c = "D" -> "d"
         [] c = "E" -> "e" [] c = "F" -> "f" [] c = "G" -> "g" [] c = "H" -> "h"
         [] c = "I" -> "i" [] c = "J" -> "j" [] c = "K" -> "k" [] c = "L" -> "l"
         [] c = "M" -> "m" [] c = "N" -> "n" [] c = "O" -> "o" [] c = "P" -> "p"
         [] c = "Q" -> "q" [] c = "R" -> "r" [] c = "S" -> "s" [] c = "T" -> "t"
         [] c = "U" -> "u" [] c = "V" -> "v" [] c = "W" -> "w" [] c = "X" -> "x"
         [] c = "Y" -> "y" [] c = "Z" -> "z"]

LowerLetters == {UpperToLower[c] : c \in DOMAIN UpperToLower}

\* A word character of the regular expressions (\w): letter, digit, underscore.
IsWordChar(c) == c \in Digits \/ c \in LowerLetters \/ c \in DOMAIN UpperToLower \/ c = "_"

\* A whitespace character of the regular expressions (\s) and of str.strip().
IsSpace(c) == c \in {" ", "\n", "\t"}

\* str.lower()
Lower(s) ==
    SubSeq([i \in 1..Len(s) |-> IF s[i] \in DOMAIN UpperToLower THEN UpperToLower[s[i]] ELSE s[i]], 1, Len(s))

\* "m in s" of Python: m occurs in s as a contiguous substring.
Contains(s, m) == \E i \in 1..(Len(s) - Len(m) + 1) : SubSeq(s, i, i + Len(m) - 1) = m

\* any(m in s for m in markers)
AnyIn(markers, s) == \E k \in 1..Len(markers) : Contains(s, markers[k])

\* str.strip(): leading and trailing whitespace removed.
RECURSIVE LStrip(_)
LStrip(s) == IF s # << >> /\ IsSpace(Head(s)) THEN LStrip(Tail(s)) ELSE s

RECURSIVE RStrip(_)
RStrip(s) == IF s # << >> /\ IsSpace(s[Len(s)]) THEN RStrip(SubSeq(s, 1, Len(s) - 1)) ELSE s

Strip(s) == RStrip(LStrip(s))

RECURSIVE Flatten(_)
Flatten(ss) == IF ss = << >> THEN << >> ELSE Head(ss) \o Flatten(Tail(ss))

(***************************************************************************)
(* module3: the lexical rule bank.                                         *)
(***************************************************************************)
AUTHORITATIVE_SOURCES ==
    << <<"o","f","f","i","c","i","a","l"," ","d","a","t","a">>,
       <<"g","o","v","e","r","n","m","e","n","t"," ","d","a","t","a">>,
       <<"a","c","c","o","r","d","i","n","g"," ","t","o"," ","o","f","f","i","c","i","a","l">>,
       <<"a","c","c","o","r","d","i","n","g"," ","t","o"," ","g","o","v","e","r","n","m","e","n","t">>,
       <<"w","o","r","l","d"," ","b","a","n","k">>,
       <<"i","m","f">>,
       <<"u","n"," ","r","e","p","o","r","t">>,
       <<"c","e","n","s","u","s">>,
       <<"s","t","a","t","i","s","t","i","c","s"," ","b","u","r","e","a","u">>,
       <<"m","i","n","i","s","t","r","y"," ","o","f">> >>

SCIENTIFIC_CONTEXT_KEYWORDS ==
    << <<"r","o","v","e","r">>,
       <<"n","a","s","a">>,
       <<"m","i","s","s","i","o","n">>,
       <<"l","a","u","n","c","h","e","d">>,
       <<"e","x","p","l","o","r","e">>,
       <<"e","x","p","l","o","r","i","n","g">>,
       <<"o","b","s","e","r","v","a","t","o","r","y">>,
       <<"s","a","t","e","l","l","i","t","e">>,
       <<"c","o","l","l","i","d","e","r">>,
       <<"e","x","p","e","r","i","m","e","n","t">>,
       <<"s","t","u","d","y">>,
       <<"r","e","s","e","a","r","c","h","e","r","s"," ","a","t">>,
       <<"i","p","c","c">>,
       <<"c","e","r","n">>,
       <<"l","a","b","o","r","a","t","o","r","y">>,
       <<"t","e","l","e","s","c","o","p","e">> >>

ATTRIBUTION_MARKERS ==
    << <<"a","r","g","u","e">>,
       <<"a","r","g","u","e","s">>,
       <<"a","r","g","u","e","d">>,
       <<"c","l","a","i","m">>,
       <<"c","l","a","i","m","s">>,
       <<"b","e","l","i","e","v","e">>,
       <<"b","e","l","i","e","v","e","s">>,
       <<"c","r","i","t","i","c">>,
       <<"c","r","i","t","i","c","s">>,
       <<"s","u","p","p","o","r","t","e","r">>,
       <<"s","u","p","p","o","r","t","e","r","s">>,
       <<"e","x","p","e","r","t","s"," ","s","a","y">>,
       <<"s","c","i","e","n","t","i","s","t","s"," ","s","a","y">>,
       <<"e","c","o","n","o","m","i","s","t","s"," ","s","a","y">>,
       <<"a","n","a","l","y","s","t","s"," ","s","a","y">> >>

MODAL_MARKERS ==
    << <<"c","o","u","l","d">>,
       <<"m","a","y">>,
       <<"m","i","g","h","t">>,
       <<"l","i","k","e","l","y">>,
       <<"u","n","l","i","k","e","l","y">>,
       <<"p","o","t","e","n","t","i","a","l">>,
       <<"r","i","s","k">>,
       <<"t","h","r","e","a","t">>,
       <<"e","x","p","e","c","t","e","d"," ","t","o">>,
       <<"p","r","o","j","e","c","t","e","d"," ","t","o">>,
       <<"f","o","r","e","c","a","s","t">>,
       <<"e","s","t","i","m","a","t","e">> >>

IMPACT_MARKERS ==
    << <<"r","e","v","o","l","u","t","i","o","n","i","z","e">>,
       <<"t","r","a","n","s","f","o","r","m">>,
       <<"c","h","a","n","g","e"," ","s","o","c","i","e","t","y">>,
       <<"s","o","l","v","e">>,
       <<"d","e","s","t","r","o","y">>,
       <<"r","e","s","h","a","p","e">>,
       <<"d","i","s","r","u","p","t">>,
       <<"e","l","i","m","i","n","a","t","e">>,
       <<"r","e","p","l","a","c","e">> >>


\* re.search(r"\d+(\.\d+)?%?", text): the optional groups never prevent a match,
\* so the pattern matches exactly when the text holds a digit.
has_number(text) == \E i \in 1..Len(text) : text[i] \in Digits

\* \b at the gap before position i (1..Len+1): exactly one side is a word character.
WordBoundary(text, i) ==
    LET before == i > 1 /\ IsWordChar(text[i - 1])
        after  == i <= Len(text) /\ IsWordChar(text[i])
    IN  before # after

\* re.search(r"\b(19|20)\d{2}\b", text)
has_year(text) ==
    \E i \in 1..(Len(text) - 3) :
        /\ WordBoundary(text, i)
        /\ SubSeq(text, i, i + 1) \in { <<"1","9">>, <<"2","0">> }
        /\ text[i + 2] \in Digits
        /\ text[i + 3] \in Digits
        /\ WordBoundary(text, i + 4)

has_source(text) == AnyIn(AUTHORITATIVE_SOURCES, text)

_is_authoritative_fact(t) ==
    LET text == Lower(t)
    IN  (has_number(text) /\ has_year(text)) \/ has_source(text)

_is_scientific_context(t) == AnyIn(SCIENTIFIC_CONTEXT_KEYWORDS, Lower(t))


(***************************************************************************)
(* module3: the two remote oracles.  A call's outcome is what the remote   *)
(* side does: it is drawn from these sets when the call is made.           *)
(***************************************************************************)
S_non_debatable == <<"n","o","n","-","d","e","b","a","t","a","b","l","e">>
S_debatable == <<"d","e","b","a","t","a","b","l","e">>
S_disagree == <<"d","i","s","a","g","r","e","e">>

\* response.text of generate_content, or an exception raised by the call.
GeminiOutcomes ==
    { [kind |-> "exception", text |-> << >>],
      [kind |-> "text", text |-> << >>],
      [kind |-> "text", text |-> <<"d","e","b","a","t","a","b","l","e">>],
      [kind |-> "text", text |-> <<"n","o","n","-","d","e","b","a","t","a","b","l","e">>],
      [kind |-> "text", text |-> <<" ","N","o","n","-","D","e","b","a","t","a","b","l","e","\n">>],
      [kind |-> "text", text |-> <<"D","e","b","a","t","a","b","l","e",".">>],
      [kind |-> "text", text |-> <<"u","n","s","u","r","e">>] }

\* The candidate labels sent to the zero-shot service (payload).
CandidateFactual == <<"p","u","r","e"," ","f","a","c","t","u","a","l"," ","s","t","a","t","e","m","e","n","t">>
CandidateDisagree == <<"c","l","a","i","m"," ","t","h","a","t"," ","p","e","o","p","l","e"," ","c","a","n"," ","r","e","a","s","o","n","a","b","l","y"," ","d","i","s","a","g","r","e","e"," ","a","b","o","u","t">>

\* requests.post: an exception (timeout, connection error), or a response with
\* a status code and a JSON body (a dict with or without "labels", or not a dict).
ZeroShotOutcomes ==
    { [kind |-> "exception", status |-> 0, json |-> "none", labels |-> << >>],
      [kind |-> "response", status |-> 401, json |-> "dict", labels |-> << >>],
      [kind |-> "response", status |-> 503, json |-> "dict", labels |-> <<CandidateDisagree, CandidateFactual>>],
      [kind |-> "response", status |-> 200, json |-> "invalid", labels |-> << >>],
      [kind |-> "response", status |-> 200, json |-> "list", labels |-> << >>],
      [kind |-> "response", status |-> 200, json |-> "dict", labels |-> << >>],
      [kind |-> "response", status |-> 200, json |-> "dict", labels |-> <<CandidateFactual, CandidateDisagree>>],
      [kind |-> "response", status |-> 200, json |-> "dict", labels |-> <<CandidateDisagree, CandidateFactual>>] }

\* What a call gives its caller: a returned value, or an exception that escapes.
Returned(v) == [raised |-> FALSE, value |-> v]
Raised == [raised |-> TRUE, value |-> "exception"]

\* _gemini_debatable without the client check of line 28.
_gemini_debatable_NoClientCheck(cl, outcome) ==
    IF outcome.kind = "exception" THEN Returned("None")
    ELSE IF outcome.text = << >> THEN Returned("None")
    ELSE LET answer == Lower(Strip(outcome.text))
         IN  IF Contains(answer, S_non_debatable) THEN Returned("non-debatable")
             ELSE IF Contains(answer, S_debatable) THEN Returned("debatable")
             ELSE Returned("None")

\* _gemini_debatable with the two substring tests of lines 104-107 in the other order.
_gemini_debatable_DebatableFirst(cl, outcome) ==
    IF ~cl THEN Returned("None")
    ELSE IF outcome.kind = "exception" THEN Returned("None")
    ELSE IF outcome.text = << >> THEN Returned("None")
    ELSE LET answer == Lower(Strip(outcome.text))
         IN  IF Contains(answer, S_debatable) THEN Returned("debatable")
             ELSE IF Contains(answer, S_non_debatable) THEN Returned("non-debatable")
             ELSE Returned("None")

\* _gemini_debatable (lines 28-113); "None" stands for Python's None.  The
\* except clause of line 111 turns an exception of the call into None.
_gemini_debatable(cl, outcome) ==
    IF ~cl THEN Returned("None")
    ELSE IF outcome.kind = "exception" THEN Returned("None")
    ELSE IF outcome.text = << >> THEN Returned("None")
    ELSE LET answer == Lower(Strip(outcome.text))
         IN  IF Contains(answer, S_non_debatable) THEN Returned("non-debatable")
             ELSE IF Contains(answer, S_debatable) THEN Returned("debatable")
             ELSE Returned("None")

\* _zero_shot_debatable without the except clause of line 155.
_zero_shot_debatable_NoExcept(outcome) ==
    IF outcome.kind = "exception" THEN Raised
    ELSE IF outcome.status # 200 THEN Returned(FALSE)
    ELSE IF outcome.json # "dict" THEN Raised
    ELSE Returned(outcome.labels # << >> /\ Contains(Lower(outcome.labels[1]), S_disagree))

\* _zero_shot_debatable (lines 128-156): the truth value of what it returns.
\* response.json() of a body that is no JSON, and result.get of a body that is
\* no dict, raise inside the try, as requests.post does on a timeout.
_zero_shot_debatable(outcome) ==
    IF outcome.kind = "exception" THEN Returned(FALSE)
    ELSE IF outcome.status # 200 THEN Returned(FALSE)
    ELSE IF outcome.json # "dict" THEN Returned(FALSE)
    ELSE Returned(outcome.labels # << >> /\ Contains(Lower(outcome.labels[1]), S_disagree))

(***************************************************************************)
(* module3: classify_claim_debatability, the lexical layers.               *)
(***************************************************************************)
\* The cascade with the impact layer tried before the authoritative override.
LexicalDecision_ImpactFirst(c) ==
    LET text == Lower(c)
    IN  IF AnyIn(IMPACT_MARKERS, text)
          THEN [layer |-> "impact", label |-> "debatable"]
        ELSE IF _is_authoritative_fact(text)
          THEN [layer |-> "authoritative", label |-> "non-debatable"]
        ELSE IF _is_scientific_context(text)
          THEN [layer |-> "scientific", label |-> "non-debatable"]
        ELSE IF AnyIn(MODAL_MARKERS, text)
          THEN [layer |-> "modal", label |-> "debatable"]
        ELSE IF AnyIn(ATTRIBUTION_MARKERS, text)
          THEN [layer |-> "attribution", label |-> "debatable"]
        ELSE [layer |-> "none", label |-> "none"]

\* The cascade whose scientific-context protection forgets the impact markers.
LexicalDecision_ScienceShadowsImpact(c) ==
    LET text == Lower(c)
    IN  IF _is_authoritative_fact(text)
          THEN [layer |-> "authoritative", label |-> "non-debatable"]
        ELSE IF _is_scientific_context(text)
          THEN [layer |-> "scientific", label |-> "non-debatable"]
        ELSE IF AnyIn(IMPACT_MARKERS, text)
          THEN [layer |-> "impact", label |-> "debatable"]
        ELSE IF AnyIn(MODAL_MARKERS, text)
          THEN [layer |-> "modal", label |-> "debatable"]
        ELSE IF AnyIn(ATTRIBUTION_MARKERS, text)
          THEN [layer |-> "attribution", label |-> "debatable"]
        ELSE [layer |-> "none", label |-> "none"]

\* Lines 262-280: the layer that returns, and its label; "none" when the
\* function goes on to the remote oracles.
LexicalDecision(c) ==
    LET text == Lower(c)
    IN  IF _is_authoritative_fact(text)
          THEN [layer |-> "authoritative", label |-> "non-debatable"]
        ELSE IF _is_scientific_context(text) /\ ~AnyIn(IMPACT_MARKERS, text)
          THEN [layer |-> "scientific", label |-> "non-debatable"]
        ELSE IF AnyIn(IMPACT_MARKERS, text)
          THEN [layer |-> "impact", label |-> "debatable"]
        ELSE IF AnyIn(MODAL_MARKERS, text)
          THEN [layer |-> "modal", label |-> "debatable"]
        ELSE IF AnyIn(ATTRIBUTION_MARKERS, text)
          THEN [layer |-> "attribution", label |-> "debatable"]
        ELSE [layer |-> "none", label |-> "none"]

(***************************************************************************)
(* Inputs of the cascade.                                                  *)
(***************************************************************************)
\* Longest claim text, in fragments.
MaxFrags == 3

Fragments ==
    << <<"2","0","2","0"," ">>,
       <<"1","9">>,
       <<"8","5"," ">>,
       <<"x">>,
       <<"c","o","u","l","d"," ">>,
       <<"R","e","v","o","l","u","t","i","o","n","i","z","e"," ">>,
       <<"b","e","l","i","e","v","e"," ">>,
       <<"m","i","s","s","i","o","n"," ">>,
       <<"i","m","f"," ">> >>

ScenarioClaim ==
    <<"S","c","i","e","n","t","i","s","t","s"," ","b","e","l","i","e","v","e"," ","t","h","e"," ","v","a","c","c","i","n","e"," ","c","o","u","l","d"," ","r","e","d","u","c","e"," ","t","r","a","n","s","m","i","s","s","i","o","n",".">>

FragmentTexts ==
    UNION { { Flatten([i \in 1..n |-> Fragments[f[i]]]) : f \in [1..n -> 1..Len(Fragments)] } :
            n \in 0..MaxFrags }

\* classify_debatability hands over item["claim"].strip() and skips empty text.
ClaimTexts == ({ Strip(x) : x \in FragmentTexts } \cup {ScenarioClaim}) \ { << >> }

(***************************************************************************)
(* State.                                                                  *)
(***************************************************************************)
VARIABLES
    \* classify_claim_debatability (module3)
    claim,            \* the argument: trimmed, non-empty text
    client,           \* module global: TRUE iff GEMINI_API_KEY was set (client is not None)
    HF_API_TOKEN,     \* module global: TRUE iff HF_API_TOKEN was set (HEADERS carries it)
    pc,               \* "lexical", "gemini", "zero_shot", "done", "raised"; "idle" outside this run
    label,            \* the returned label; "none" until the function returns
    layer,            \* the layer whose return statement produced label
    gemini_result,    \* line 283; "unset" before the call, "None" for None
    calls,            \* the oracle functions called so far, in order
    requests,         \* the remote requests sent so far, in order
    \* retrieve_evidence_chunks (module4)
    claims,           \* the argument: the list of classified records
    item,             \* index in claims of the record being processed
    hpc,              \* "item", "search_pro", "search_con", "results", "append", "done", "raised"; "idle"
    pro_results,
    combined_results,
    pos,              \* index in combined_results of the next result
    seen_urls,
    evidence_chunks,
    enriched_results,
    search_log,       \* every _search_web call: the record it was made for and the query
    fetch_log,        \* every _extract_paragraph_chunks call: the record and the url
    last_call         \* what the remote call of the step just taken did; NoCall after any other step

cvars == <<claim, client, HF_API_TOKEN, pc, label, layer, gemini_result, calls, requests>>

hvars == <<claims, item, hpc, pro_results, combined_results, pos, seen_urls,
           evidence_chunks, enriched_results, search_log, fetch_log, last_call>>

vars == <<cvars, hvars>>

CascadeIdle ==
    /\ claim = << >> /\ client = FALSE /\ HF_API_TOKEN = FALSE /\ pc = "idle"
    /\ label = "none" /\ layer = "none" /\ gemini_result = "unset"
    /\ calls = << >> /\ requests = << >>

NoCall == [fn |-> "none", kind |-> "none", status |-> 0]

HarvestIdle ==
    /\ last_call = NoCall
    /\ claims = << >> /\ item = 0 /\ hpc = "idle" /\ pro_results = << >>
    /\ combined_results = << >> /\ pos = 0 /\ seen_urls = {}
    /\ evidence_chunks = << >> /\ enriched_results = << >>
    /\ search_log = << >> /\ fetch_log = << >>

(***************************************************************************)
(* classify_claim_debatability as a state machine: one step for the        *)
(* lexical layers, one for each call of a remote oracle.                   *)
(***************************************************************************)
InitCascade ==
    /\ claim \in ClaimTexts
    /\ client \in BOOLEAN
    /\ HF_API_TOKEN \in BOOLEAN
    /\ pc = "lexical"
    /\ label = "none" /\ layer = "none" /\ gemini_result = "unset"
    /\ calls = << >> /\ requests = << >>
    /\ HarvestIdle

\* Lines 262-280.
ClassifyLexical ==
    /\ pc = "lexical"
    /\ LET d == LexicalDecision(claim)
       IN  IF d.layer # "none"
             THEN /\ label' = d.label
                  /\ layer' = d.layer
                  /\ pc' = "done"
             ELSE /\ pc' = "gemini"
                  /\ UNCHANGED <<label, layer>>
    /\ UNCHANGED <<claim, client, HF_API_TOKEN, gemini_result, calls, requests, hvars>>

\* The primary oracle's label returned, but the secondary oracle consulted all the same.
GeminiCall_NoShortCircuit ==
    /\ pc = "gemini"
    /\ \E outcome \in GeminiOutcomes :
          LET r == _gemini_debatable(client, outcome)
          IN  /\ gemini_result' = r.value
              /\ calls' = Append(calls, "gemini")
              /\ requests' = IF client THEN Append(requests, [to |-> "gemini", auth |-> TRUE, outcome |-> outcome])
                                       ELSE requests
              /\ pc' = "zero_shot"
              /\ IF r.value # "None"
                   THEN label' = r.value /\ layer' = "gemini"
                   ELSE UNCHANGED <<label, layer>>
    /\ UNCHANGED <<claim, client, HF_API_TOKEN, hvars>>

\* Lines 283-285: the call of _gemini_debatable; without a client no request is
\* sent.  classify_claim_debatability has no handler of its own: an exception
\* that escaped the call would end it ("raised").
GeminiCall ==
    /\ pc = "gemini"
    /\ \E outcome \in GeminiOutcomes :
          LET r == _gemini_debatable(client, outcome)
          IN  /\ gemini_result' = r.value
              /\ calls' = Append(calls, "gemini")
              /\ requests' = IF client THEN Append(requests, [to |-> "gemini", auth |-> TRUE, outcome |-> outcome])
                                       ELSE requests
              /\ IF r.raised
                   THEN /\ pc' = "raised"
                        /\ UNCHANGED <<label, layer>>
                   ELSE IF r.value # "None"
                   THEN /\ label' = r.value
                        /\ layer' = "gemini"
                        /\ pc' = "done"
                   ELSE /\ pc' = "zero_shot"
                        /\ UNCHANGED <<label, layer>>
    /\ UNCHANGED <<claim, client, HF_API_TOKEN, hvars>>

\* Lines 288-291: the call of _zero_shot_debatable, which posts the request with
\* HEADERS, empty when HF_API_TOKEN is not set, and the default return.
ZeroShotCall ==
    /\ pc = "zero_shot"
    /\ \E outcome \in ZeroShotOutcomes :
          LET r == _zero_shot_debatable(outcome)
          IN  /\ calls' = Append(calls, "zero_shot")
              /\ requests' = Append(requests, [to |-> "huggingface", auth |-> HF_API_TOKEN, outcome |-> outcome])
              /\ IF r.raised
                   THEN /\ pc' = "raised"
                        /\ UNCHANGED <<label, layer>>
                   ELSE /\ pc' = "done"
                        /\ IF r.value
                             THEN label' = "debatable" /\ layer' = "zero_shot"
                             ELSE label' = "non-debatable" /\ layer' = "default"
    /\ UNCHANGED <<claim, client, HF_API_TOKEN, gemini_result, hvars>>

NextCascade == ClassifyLexical \/ GeminiCall \/ ZeroShotCall

SpecCascade == InitCascade /\ [][NextCascade]_vars

(***************************************************************************)
(* Properties of the cascade, checked under SpecCascade.                   *)
(***************************************************************************)
Labels == {"debatable", "non-debatable"}

\* The claim text holds a year as a token of its own: a maximal run of word
\* characters that is 19 or 20 followed by two digits.
ContainsYearToken(c) ==
    \E i \in 1..(Len(c) - 3) :
        /\ i = 1 \/ ~IsWordChar(c[i - 1])
        /\ i + 3 = Len(c) \/ ~IsWordChar(c[i + 4])
        /\ \/ c[i] = "1" /\ c[i + 1] = "9"
           \/ c[i] = "2" /\ c[i + 1] = "0"
        /\ c[i + 2] \in Digits /\ c[i + 3] \in Digits

ContainsNumericToken(c) == \E i \in 1..Len(c) : c[i] \in Digits

ContainsMarker(c, markers) ==
    LET lowered == Lower(c)
    IN  \E k \in 1..Len(markers) : Contains(lowered, markers[k])

\* The request posted to the secondary oracle, once it is made.
ZeroShotAsked == requests # << >> /\ requests[Len(requests)].to = "huggingface"

ZeroShotOutcome == requests[Len(requests)].outcome

\* The secondary service answered 200 with a ranked list whose top label is the
\* "disagree" candidate: the one answer that is a signal.
ZeroShotSignals(o) ==
    /\ o.kind = "response" /\ o.status = 200 /\ o.json = "dict"
    /\ o.labels # << >> /\ o.labels[1] = CandidateDisagree

\* C1: a claim text with a 4-digit year token (19xx/20xx) and a numeric token is
\* labelled non-debatable, whatever markers it also holds, and no remote oracle
\* is consulted for it.
C1_YearAndNumberOverride ==
    (pc = "done" /\ ContainsYearToken(claim) /\ ContainsNumericToken(claim))
        => (label = "non-debatable" /\ calls = << >>)

\* A year-and-number claim that also holds an impact, a modal and an attribution
\* marker has been labelled non-debatable.
C1_Witness ==
    /\ pc = "done" /\ ContainsYearToken(claim)
    /\ ContainsMarker(claim, IMPACT_MARKERS)
    /\ ContainsMarker(claim, MODAL_MARKERS)
    /\ label = "non-debatable"

\* C2: a claim text with an impact marker and no authoritative signal is labelled
\* debatable without any remote oracle being consulted (so also when both are
\* unavailable), also when it holds a scientific-context keyword.
C2_ImpactIsDebatable ==
    (pc = "done" /\ ContainsMarker(claim, IMPACT_MARKERS)
                 /\ ~(ContainsYearToken(claim) /\ ContainsNumericToken(claim))
                 /\ ~ContainsMarker(claim, AUTHORITATIVE_SOURCES))
        => (label = "debatable" /\ calls = << >>)

\* An impact claim with a scientific-context keyword has been labelled debatable
\* with neither credential configured.
C2_Witness ==
    /\ pc = "done" /\ ~client /\ ~HF_API_TOKEN
    /\ ContainsMarker(claim, IMPACT_MARKERS)
    /\ ContainsMarker(claim, SCIENTIFIC_CONTEXT_KEYWORDS)
    /\ label = "debatable"

\* C3: the claim "Scientists believe the vaccine could reduce transmission." is
\* labelled debatable (whatever the oracles do, so also when both fail).
C3_ScenarioIsDebatable ==
    (pc = "done" /\ claim = ScenarioClaim) => label = "debatable"

\* Both oracle outcomes are failures: no credential, an exception or timeout, a
\* status other than 200, an empty or unparseable response.
GeminiFailed ==
    /\ "gemini" \in {calls[k] : k \in 1..Len(calls)}
    /\ \/ ~client
       \/ \E k \in 1..Len(requests) :
             /\ requests[k].to = "gemini"
             /\ \/ requests[k].outcome.kind = "exception"
                \/ ~Contains(Lower(requests[k].outcome.text), S_debatable)

ZeroShotFailed == ZeroShotAsked /\ ~ZeroShotSignals(ZeroShotOutcome)

\* The statements still to run: each step of the function leaves fewer.
Remaining(p) ==
    CASE p = "lexical" -> 3 [] p = "gemini" -> 2 [] p = "zero_shot" -> 1 [] OTHER -> 0

\* C7: the cascade ends (every step leaves fewer steps to run), no exception
\* escapes it whatever the oracles' failures, it returns exactly one of the two
\* labels, and when no lexical layer fired and both oracles failed the label is
\* non-debatable.
C7_TotalWithDefault ==
    /\ [][Remaining(pc') < Remaining(pc)]_vars
    /\ [](pc # "raised")
    /\ [](IF pc = "done" THEN label \in Labels ELSE label = "none")
    /\ []((pc = "done" /\ GeminiFailed /\ ZeroShotFailed) => label = "non-debatable")

\* Both oracles were called and failed, and the default label was returned.
C7_Witness ==
    /\ pc = "done" /\ client /\ GeminiFailed /\ ZeroShotFailed
    /\ ZeroShotOutcome.status = 503
    /\ label = "non-debatable"

\* No lexical layer fires on the claim text.
NoLexicalLayer(c) ==
    /\ ~(ContainsYearToken(c) /\ ContainsNumericToken(c))
    /\ ~ContainsMarker(c, AUTHORITATIVE_SOURCES)
    /\ ~ContainsMarker(c, SCIENTIFIC_CONTEXT_KEYWORDS)
    /\ ~ContainsMarker(c, IMPACT_MARKERS)
    /\ ~ContainsMarker(c, MODAL_MARKERS)
    /\ ~ContainsMarker(c, ATTRIBUTION_MARKERS)

\* C9 as stated: with neither credential configured, a claim on which no lexical
\* layer fires is labelled non-debatable.
C9_NoCredentialsDefault ==
    (pc = "done" /\ ~client /\ ~HF_API_TOKEN /\ NoLexicalLayer(claim))
        => label = "non-debatable"

\* C9 amended: with neither credential configured, the primary oracle gives no
\* signal and is sent no request; the secondary oracle is still sent a request,
\* without an Authorization header, and the claim is labelled debatable exactly
\* when that request is answered 200 with the "disagree" label on top.
C9_NoCredentialsAmended ==
    (pc = "done" /\ ~client /\ ~HF_API_TOKEN /\ NoLexicalLayer(claim))
        => /\ gemini_result = "None"
           /\ Len(requests) = 1 /\ ZeroShotAsked /\ ~requests[1].auth
           /\ label = IF ZeroShotSignals(ZeroShotOutcome) THEN "debatable" ELSE "non-debatable"

\* With neither credential configured, a claim reached the default label after
\* the secondary service refused the request.
C9_Witness ==
    /\ pc = "done" /\ ~client /\ ~HF_API_TOKEN /\ NoLexicalLayer(claim)
    /\ ZeroShotAsked /\ ZeroShotOutcome.status = 401
    /\ label = "non-debatable"

\* The lexical layers in the order of the cascade, each with whether it fires.
LayerOrder == <<"authoritative", "scientific", "impact", "modal", "attribution">>

Fires(c, l) ==
    CASE l = "authoritative" ->
            (ContainsYearToken(c) /\ ContainsNumericToken(c)) \/ ContainsMarker(c, AUTHORITATIVE_SOURCES)
      [] l = "scientific" ->
            ContainsMarker(c, SCIENTIFIC_CONTEXT_KEYWORDS) /\ ~ContainsMarker(c, IMPACT_MARKERS)
      [] l = "impact" -> ContainsMarker(c, IMPACT_MARKERS)
      [] l = "modal" -> ContainsMarker(c, MODAL_MARKERS)
      [] l = "attribution" -> ContainsMarker(c, ATTRIBUTION_MARKERS)

\* C10: first match wins.  A lexical layer decides only if no earlier one fires;
\* the primary oracle is called only if no lexical layer fired; the secondary one
\* only after the primary one was called and returned no opinion; a label from
\* the primary oracle is the result, and the secondary one is then not called.
C10_FirstMatchWins ==
    /\ calls \in { << >>, <<"gemini">>, <<"gemini", "zero_shot">> }
    /\ calls # << >> => \A k \in 1..Len(LayerOrder) : ~Fires(claim, LayerOrder[k])
    /\ calls = <<"gemini", "zero_shot">> => gemini_result = "None"
    /\ gemini_result \in Labels => (calls = <<"gemini">> /\ pc = "done" /\ label = gemini_result)
    /\ pc = "done" =>
          \/ /\ \E k \in 1..Len(LayerOrder) :
                   /\ layer = LayerOrder[k]
                   /\ Fires(claim, layer)
                   /\ \A j \in 1..(k - 1) : ~Fires(claim, LayerOrder[j])
             /\ calls = << >>
          \/ /\ layer \in {"gemini", "zero_shot", "default"}
             /\ calls # << >>

\* The primary oracle returned a label for a claim no lexical layer decided, and
\* the cascade ended with that label.
C10_Witness ==
    /\ pc = "done" /\ layer = "gemini" /\ label = "non-debatable"
    /\ calls = <<"gemini">>

\* The word occurs in the response text, in any mix of capitals.
Mentions(text, word) ==
    \E i \in 0..(Len(text) - Len(word)) :
        \A j \in 1..Len(word) :
            \/ text[i + j] = word[j]
            \/ text[i + j] \in DOMAIN UpperToLower /\ UpperToLower[text[i + j]] = word[j]

\* The primary oracle was sent a request, and this is what came back.
GeminiAsked == requests # << >> /\ requests[1].to = "gemini"

GeminiResponse == requests[1].outcome

\* C11: a response of the primary oracle that holds "non-debatable" gives
\* non-debatable, never debatable; one that holds "debatable" but not
\* "non-debatable" gives debatable; an empty response, or one that holds neither,
\* gives no opinion, and the cascade goes on to the secondary oracle.
C11_NonDebatableTestedFirst ==
    (GeminiAsked /\ GeminiResponse.kind = "text") =>
        LET text == GeminiResponse.text
        IN  /\ Mentions(text, S_non_debatable) =>
                  (gemini_result = "non-debatable" /\ label = "non-debatable" /\ pc = "done")
            /\ (Mentions(text, S_debatable) /\ ~Mentions(text, S_non_debatable)) =>
                  (gemini_result = "debatable" /\ label = "debatable" /\ pc = "done")
            /\ (text = << >> \/ ~Mentions(text, S_debatable)) =>
                  /\ gemini_result = "None"
                  /\ pc = "zero_shot" \/ calls = <<"gemini", "zero_shot">>

\* The primary oracle answered " Non-Debatable" followed by a line break, which
\* holds both words, and the cascade ended with non-debatable.
C11_Witness ==
    /\ GeminiAsked /\ GeminiResponse.kind = "text"
    /\ GeminiResponse.text = <<" ","N","o","n","-","D","e","b","a","t","a","b","l","e","\n">>
    /\ pc = "done" /\ label = "non-debatable" /\ calls = <<"gemini">>

(***************************************************************************)
(* module4: text cleaning, boilerplate filter, URL validation.             *)
(***************************************************************************)
\* re.sub(r"\s+", " ", text): every run of whitespace becomes one space, that is,
\* a whitespace character that follows another is dropped and the others become " ".
CollapseSpaces(s) ==
    LET marked == [i \in 1..Len(s) |->
                      IF ~IsSpace(s[i]) THEN s[i]
                      ELSE IF i > 1 /\ IsSpace(s[i - 1]) THEN "dropped"
                      ELSE " "]
        kept(c) == c # "dropped"
    IN  SelectSeq(marked, kept)

\* _clean_text: the substitution, then strip().
_clean_text(text) == Strip(CollapseSpaces(text))

BOILERPLATE_KEYWORDS ==
    << <<"s","u","b","s","c","r","i","b","e">>,
       <<"s","i","g","n"," ","i","n">>,
       <<"p","r","i","v","a","c","y"," ","p","o","l","i","c","y">>,
       <<"c","o","o","k","i","e"," ","p","o","l","i","c","y">>,
       <<"a","d","v","e","r","t","i","s","e","m","e","n","t">>,
       <<"a","l","l"," ","r","i","g","h","t","s"," ","r","e","s","e","r","v","e","d">>,
       <<"n","e","w","s","l","e","t","t","e","r">>,
       <<"t","e","r","m","s"," ","o","f"," ","u","s","e">> >>

\* The keyword test on the text as it stands, without lower-casing it.
_is_boilerplate_CaseSensitive(text) == AnyIn(BOILERPLATE_KEYWORDS, text)

_is_boilerplate(text) == AnyIn(BOILERPLATE_KEYWORDS, Lower(text))

BLOCKED_EXTENSIONS ==
    << <<".","p","d","f">> >>

BLOCKED_DOMAINS ==
    << <<"r","e","s","e","a","r","c","h","g","a","t","e",".","n","e","t">>,
       <<"s","c","i","e","n","c","e","d","i","r","e","c","t",".","c","o","m">> >>

\* A url is a character sequence, or NoUrl for Python's None (r.get("href")).
NoUrl == <<"None">>

\* _is_valid_url testing url instead of url_lower.
_is_valid_url_CaseSensitive(url) ==
    IF url = NoUrl \/ url = << >> THEN FALSE
    ELSE /\ ~AnyIn(BLOCKED_EXTENSIONS, url)
         /\ ~AnyIn(BLOCKED_DOMAINS, url)

_is_valid_url(url) ==
    IF url = NoUrl \/ url = << >> THEN FALSE
    ELSE LET url_lower == Lower(url)
         IN  /\ ~AnyIn(BLOCKED_EXTENSIONS, url_lower)
             /\ ~AnyIn(BLOCKED_DOMAINS, url_lower)

(***************************************************************************)
(* module4: _extract_paragraph_chunks.                                     *)
(***************************************************************************)
\* len(text) < 120 of line 88.
MinParagraphLength == 120

\* max_paragraphs of line 60.
max_paragraphs == 12

\* The loop with the test of line 96 made after the next append: > for >=.
RECURSIVE ParagraphLoop_CapOffByOne(_, _, _)
ParagraphLoop_CapOffByOne(paragraphs, k, chunks) ==
    IF k > Len(paragraphs) THEN chunks
    ELSE LET text == _clean_text(paragraphs[k].text)
         IN  IF paragraphs[k].within # "body" THEN ParagraphLoop_CapOffByOne(paragraphs, k + 1, chunks)
             ELSE IF Len(text) < MinParagraphLength THEN ParagraphLoop_CapOffByOne(paragraphs, k + 1, chunks)
             ELSE IF _is_boilerplate(text) THEN ParagraphLoop_CapOffByOne(paragraphs, k + 1, chunks)
             ELSE IF Len(chunks) + 1 > max_paragraphs THEN Append(chunks, text)
             ELSE ParagraphLoop_CapOffByOne(paragraphs, k + 1, Append(chunks, text))

\* The loop of lines 85-97 over the <p> elements left after script, style and
\* noscript are decomposed: the chunks gathered from paragraph k on.
RECURSIVE ParagraphLoop(_, _, _)
ParagraphLoop(paragraphs, k, chunks) ==
    IF k > Len(paragraphs) THEN chunks
    ELSE LET text == _clean_text(paragraphs[k].text)
         IN  IF paragraphs[k].within # "body" THEN ParagraphLoop(paragraphs, k + 1, chunks)
             ELSE IF Len(text) < MinParagraphLength THEN ParagraphLoop(paragraphs, k + 1, chunks)
             ELSE IF _is_boilerplate(text) THEN ParagraphLoop(paragraphs, k + 1, chunks)
             ELSE IF Len(chunks) + 1 >= max_paragraphs THEN Append(chunks, text)
             ELSE ParagraphLoop(paragraphs, k + 1, Append(chunks, text))

\* _extract_paragraph_chunks without the except clause of lines 101-102.
_extract_paragraph_chunks_NoExcept(outcome) ==
    IF outcome.kind = "exception" THEN Raised
    ELSE IF outcome.status # 200 THEN Returned(<< >>)
    ELSE Returned(ParagraphLoop(outcome.page, 1, << >>))

\* _extract_paragraph_chunks on what requests.get does: an exception, or a
\* response with a status code and a page (its <p> elements in document order).
_extract_paragraph_chunks(outcome) ==
    IF outcome.kind = "exception" THEN Returned(<< >>)
    ELSE IF outcome.status # 200 THEN Returned(<< >>)
    ELSE Returned(ParagraphLoop(outcome.page, 1, << >>))

\* _search_web on what DDGS().text does: the results, or an exception.
_search_web(outcome) ==
    IF outcome.kind = "exception" THEN Returned(<< >>)
    ELSE Returned([k \in 1..Len(outcome.results) |->
                      [title |-> outcome.results[k].title, url |-> outcome.results[k].href]])

(***************************************************************************)
(* Inputs of the harvester: the classified records, and what the web does. *)
(***************************************************************************)
\* Longest list of records handed to retrieve_evidence_chunks.
MaxClaims == 2

TextImpact == <<"A","I"," ","c","o","u","l","d"," ","r","e","p","l","a","c","e"," ","j","o","b","s">>
TextFact == <<"G","D","P"," ","g","r","e","w"," ","3","%"," ","i","n"," ","2","0","2","0">>

HarvestTexts == {TextImpact, TextFact}

\* The labels classify_claim_debatability can give a text: the lexical layers'
\* label when one of them returns, either label when the oracles decide.
PossibleLabels(c) ==
    LET d == LexicalDecision(c)
    IN  IF d.layer # "none" THEN {d.label} ELSE Labels

\* The records of classify_debatability, whose claim_id values are those of
\* extract_claims: 1, 2, ... in order.
ClassifiedLists ==
    UNION { { [i \in 1..n |-> [claim_id |-> i, claim |-> f[i].claim, label |-> f[i].label]] :
              f \in [1..n -> { [claim |-> c, label |-> l] : c \in HarvestTexts, l \in Labels }] } :
            n \in 0..MaxClaims }

InputLists == { cs \in ClassifiedLists : \A i \in 1..Len(cs) : cs[i].label \in PossibleLabels(cs[i].claim) }

UrlA == <<"h","t","t","p",":","/","/","a",".","o","r","g","/","x">>
UrlB == <<"h","t","t","p",":","/","/","b",".","o","r","g","/","y">>
UrlPdf == <<"h","t","t","p",":","/","/","b",".","o","r","g","/","y",".","P","D","F","?","d","l","=","1">>
UrlPdfEnd == <<"h","t","t","p",":","/","/","a",".","o","r","g","/","P","a","p","e","r",".","P","D","F">>
UrlEmpty == << >>
UrlBlocked == <<"h","t","t","p","s",":","/","/","w","w","w",".","R","e","s","e","a","r","c","h","G","a","t","e",".","n","e","t","/","p">>

\* What DDGS().text(query, max_results=5) can do.
SearchOutcomes ==
    { [kind |-> "exception", results |-> << >>],
      [kind |-> "ok", results |-> << >>],
      [kind |-> "ok", results |-> << [title |-> "A", href |-> UrlA], [title |-> "B", href |-> UrlB] >>],
      [kind |-> "ok", results |-> << [title |-> "Pdf", href |-> UrlPdf], [title |-> "A again", href |-> UrlA],
                                     [title |-> "A", href |-> UrlA] >>],
      [kind |-> "ok", results |-> << [title |-> "No link", href |-> NoUrl], [title |-> "Empty link", href |-> UrlEmpty],
                                     [title |-> "Gated", href |-> UrlBlocked], [title |-> "Paper", href |-> UrlPdfEnd],
                                     [title |-> "B", href |-> UrlB] >>] }

Rep(c, n) == [i \in 1..n |-> c]

\* The letters of the twelve plain paragraphs that end the page.
TailLetters == <<"g", "h", "i", "j", "k", "l", "m", "n", "o", "p", "q", "r">>

\* A page with a paragraph for every filter: too short, one character short,
\* exactly long enough, boilerplate in capitals, long only before cleaning,
\* long enough after cleaning, and one inside <noscript>; then twelve more of
\* 120 characters, so that fourteen paragraphs pass the filters.
PageMixed ==
    << [within |-> "body", text |-> <<"S","h","o","r","t"," ","t","e","x","t",".">>],
       [within |-> "body", text |-> Rep("a", 119)],
       [within |-> "body", text |-> Rep("b", 120)],
       [within |-> "body", text |-> <<"S","u","b","s","c","r","i","b","e"," ","t","o"," ","o","u","r"," ","N","e","w","s","l","e","t","t","e","r"," ">> \o Rep("c", 120)],
       [within |-> "body", text |-> <<" ", " ">> \o Rep("d", 100) \o <<" ", "\n", " ">> \o Rep("d", 17) \o <<" ", " ">>],
       [within |-> "body", text |-> <<"\n">> \o Rep("e", 60) \o <<" ", "\t", " ">> \o Rep("e", 60) \o <<"\n">>],
       [within |-> "noscript", text |-> Rep("f", 130)] >>
    \o [k \in 1..Len(TailLetters) |-> [within |-> "body", text |-> Rep(TailLetters[k], 120)]]

\* What requests.get(url, timeout=10) can do.
PageOutcomes ==
    { [kind |-> "exception", status |-> 0, page |-> << >>],
      [kind |-> "response", status |-> 404, page |-> PageMixed],
      [kind |-> "response", status |-> 200, page |-> << >>],
      [kind |-> "response", status |-> 200, page |-> PageMixed] }

\* _extract_paragraph_chunks is a function of what requests.get does alone: its
\* value for each outcome, computed once.
ExtractedChunks == [o \in PageOutcomes |-> _extract_paragraph_chunks(o)]

ProSuffix == <<" ","b","e","n","e","f","i","t","s"," ","a","d","v","a","n","t","a","g","e","s"," ","p","o","s","i","t","i","v","e"," ","i","m","p","a","c","t"," ","s","u","p","p","o","r","t","i","n","g"," ","e","v","i","d","e","n","c","e"," ","r","e","s","e","a","r","c","h"," ","f","i","n","d","i","n","g","s">>
ConSuffix == <<" ","c","r","i","t","i","c","i","s","m"," ","r","i","s","k","s"," ","n","e","g","a","t","i","v","e"," ","i","m","p","a","c","t"," ","o","p","p","o","s","i","n","g"," ","v","i","e","w"," ","c","o","u","n","t","e","r","a","r","g","u","m","e","n","t"," ","c","o","n","c","e","r","n","s"," ","d","e","b","a","t","e">>

(***************************************************************************)
(* retrieve_evidence_chunks as a state machine: a step for the head of an  *)
(* iteration, one for each search, one for each search result, one for the *)
(* append that ends the iteration, one for the return.                     *)
(***************************************************************************)
InitHarvest ==
    /\ claims \in InputLists
    /\ item = 1
    /\ hpc = "item"
    /\ pro_results = << >> /\ combined_results = << >> /\ pos = 0
    /\ seen_urls = {} /\ evidence_chunks = << >>
    /\ enriched_results = << >>
    /\ search_log = << >> /\ fetch_log = << >>
    /\ last_call = NoCall
    /\ CascadeIdle

\* The test of line 140 taken for every label.
IsDebatable_Always(l) == TRUE

\* Line 140.
IsDebatable(l) == l = "debatable"

\* Lines 132-140: the locals of the iteration, and the test of the label.
BeginItem ==
    /\ hpc = "item" /\ item <= Len(claims)
    /\ evidence_chunks' = << >>
    /\ seen_urls' = {}
    /\ hpc' = IF IsDebatable(claims[item].label) THEN "search_pro" ELSE "append"
    /\ last_call' = NoCall
    /\ UNCHANGED <<claims, item, pro_results, combined_results, pos, enriched_results,
                   search_log, fetch_log, cvars>>

\* Lines 145-158.
SearchPro ==
    /\ hpc = "search_pro"
    /\ \E outcome \in SearchOutcomes :
          LET r == _search_web(outcome)
          IN  /\ search_log' = Append(search_log, [item |-> item, query |-> claims[item].claim \o ProSuffix])
              /\ last_call' = [fn |-> "search", kind |-> outcome.kind, status |-> 0]
              /\ IF r.raised
                   THEN hpc' = "raised" /\ UNCHANGED pro_results
                   ELSE hpc' = "search_con" /\ pro_results' = r.value
    /\ UNCHANGED <<claims, item, combined_results, pos, seen_urls, evidence_chunks,
                   enriched_results, fetch_log, cvars>>

\* Lines 153-161.
SearchCon ==
    /\ hpc = "search_con"
    /\ \E outcome \in SearchOutcomes :
          LET r == _search_web(outcome)
          IN  /\ search_log' = Append(search_log, [item |-> item, query |-> claims[item].claim \o ConSuffix])
              /\ last_call' = [fn |-> "search", kind |-> outcome.kind, status |-> 0]
              /\ IF r.raised
                   THEN hpc' = "raised" /\ UNCHANGED <<combined_results, pos>>
                   ELSE /\ hpc' = "results"
                        /\ combined_results' = pro_results \o r.value
                        /\ pos' = 1
    /\ UNCHANGED <<claims, item, pro_results, seen_urls, evidence_chunks,
                   enriched_results, fetch_log, cvars>>

\* Lines 170-171 with the test left out: no url counts as seen.
AlreadySeen_Never(url, seen) == FALSE

\* Lines 170-171.
AlreadySeen(url, seen) == url \in seen

\* Lines 165-171: a result that is skipped.
SkipResult ==
    /\ hpc = "results" /\ pos <= Len(combined_results)
    /\ LET url == combined_results[pos].url
       IN  ~_is_valid_url(url) \/ AlreadySeen(url, seen_urls)
    /\ pos' = pos + 1
    /\ last_call' = NoCall
    /\ UNCHANGED <<claims, item, hpc, pro_results, combined_results, seen_urls,
                   evidence_chunks, enriched_results, search_log, fetch_log, cvars>>

\* Lines 165-182: a result whose page is fetched.
FetchResult ==
    /\ hpc = "results" /\ pos <= Len(combined_results)
    /\ LET result == combined_results[pos]
           url == result.url
       IN  /\ _is_valid_url(url) /\ ~AlreadySeen(url, seen_urls)
           /\ seen_urls' = seen_urls \cup {url}
           /\ fetch_log' = Append(fetch_log, [item |-> item, url |-> url])
           /\ \E outcome \in PageOutcomes :
                 LET r == ExtractedChunks[outcome]
                     paragraphs == r.value
                 IN  /\ last_call' = [fn |-> "fetch", kind |-> outcome.kind, status |-> outcome.status]
                     /\ IF r.raised
                          THEN hpc' = "raised" /\ UNCHANGED <<evidence_chunks, pos>>
                          ELSE /\ evidence_chunks' = evidence_chunks \o
                                     [k \in 1..Len(paragraphs) |->
                                         [source |-> result.title, url |-> url, content |-> paragraphs[k]]]
                               /\ pos' = pos + 1
                               /\ hpc' = hpc
    /\ UNCHANGED <<claims, item, pro_results, combined_results, enriched_results,
                   search_log, cvars>>

\* enriched_results.append with the record put in front instead.
AppendEnriched_InFront(results, record) == <<record>> \o results

\* Lines 184-189.
AppendEnriched(results, record) == Append(results, record)

\* Lines 184-189, reached when the label is not debatable or the results are used
\* up.  pro_results, combined_results and the loop position are not read again
\* before they are assigned: they are dropped here.  seen_urls and
\* evidence_chunks stay as they are until lines 137-138 of the next iteration.
AppendRecord ==
    /\ \/ hpc = "append"
       \/ hpc = "results" /\ pos > Len(combined_results)
    /\ enriched_results' = AppendEnriched(enriched_results,
            [claim_id |-> claims[item].claim_id, claim |-> claims[item].claim,
             label |-> claims[item].label, evidence_chunks |-> evidence_chunks])
    /\ item' = item + 1
    /\ hpc' = "item"
    /\ pro_results' = << >> /\ combined_results' = << >> /\ pos' = 0
    /\ last_call' = NoCall
    /\ UNCHANGED <<claims, seen_urls, evidence_chunks, search_log, fetch_log, cvars>>

\* Line 191: the function returns, and its locals are gone.
Return ==
    /\ hpc = "item" /\ item > Len(claims)
    /\ hpc' = "done"
    /\ pro_results' = << >> /\ combined_results' = << >> /\ pos' = 0
    /\ seen_urls' = {} /\ evidence_chunks' = << >>
    /\ last_call' = NoCall
    /\ UNCHANGED <<claims, item, enriched_results, search_log, fetch_log, cvars>>

NextHarvest ==
    BeginItem \/ SearchPro \/ SearchCon \/ SkipResult \/ FetchResult \/ AppendRecord \/ Return

SpecHarvest == InitHarvest /\ [][NextHarvest]_vars

(***************************************************************************)
(* Properties of the harvester, checked under SpecHarvest.                 *)
(***************************************************************************)
Range(seq) == { seq[k] : k \in 1..Len(seq) }

\* The urls of a chunk list are grouped: a url does not come back after another.
Grouped(chunks) ==
    \A b \in 2..Len(chunks) :
        chunks[b - 1].url # chunks[b].url => \A a \in 1..(b - 2) : chunks[a].url # chunks[b].url

\* C4: a record whose label is not debatable is given an empty evidence_chunks
\* list, and no search and no fetch is ever made for it.
C4_NonDebatableUntouched ==
    /\ \A k \in 1..Len(enriched_results) :
          enriched_results[k].label # "debatable" => enriched_results[k].evidence_chunks = << >>
    /\ \A e \in Range(search_log) : claims[e.item].label = "debatable"
    /\ \A e \in Range(fetch_log) : claims[e.item].label = "debatable"
    /\ hpc \in {"search_pro", "search_con", "results"} => claims[item].label = "debatable"

\* A non-debatable record was returned, empty and with no call made for it, after
\* a debatable record for which pages were searched, fetched and gave chunks.
C4_Witness ==
    /\ hpc = "done" /\ Len(claims) = 2
    /\ claims[1].label = "debatable" /\ claims[2].label = "non-debatable"
    /\ enriched_results[1].evidence_chunks # << >>
    /\ enriched_results[2].evidence_chunks = << >>
    /\ \A e \in Range(search_log) \cup Range(fetch_log) : e.item = 1

\* C5: for one record no url is fetched twice, and its chunks come from that one
\* fetch (they are grouped by url and all from fetched urls); the seen-url set is
\* empty when the harvesting of a record starts.
C5_FetchedOncePerClaim ==
    /\ \A a, b \in 1..Len(fetch_log) :
          (a < b /\ fetch_log[a].item = fetch_log[b].item) => fetch_log[a].url # fetch_log[b].url
    /\ \A k \in 1..Len(enriched_results) :
          /\ Grouped(enriched_results[k].evidence_chunks)
          /\ \A ch \in Range(enriched_results[k].evidence_chunks) :
                \E e \in Range(fetch_log) : e.item = k /\ e.url = ch.url
    /\ hpc = "results" => Grouped(evidence_chunks)
    /\ hpc \in {"search_pro", "search_con"} => (seen_urls = {} /\ evidence_chunks = << >>)

\* The second record's results hold a url twice, from the pro and from the con
\* query; it was fetched once for this record, and once before for the first.
C5_Witness ==
    /\ hpc = "results" /\ item = 2 /\ pos > Len(combined_results)
    /\ \E a, b \in 1..Len(combined_results) :
          /\ a <= Len(pro_results) /\ b > Len(pro_results)
          /\ combined_results[a].url = UrlA /\ combined_results[b].url = UrlA
    /\ Cardinality({ k \in 1..Len(fetch_log) : fetch_log[k] = [item |-> 2, url |-> UrlA] }) = 1
    /\ [item |-> 1, url |-> UrlA] \in Range(fetch_log)
    /\ evidence_chunks # << >>

\* The contents of all chunks of the returned records.
ReturnedContents ==
    UNION { { ch.content : ch \in Range(enriched_results[k].evidence_chunks) } :
            k \in 1..Len(enriched_results) }

\* C6: no returned chunk is shorter than 120 characters or holds a boilerplate
\* keyword in any mix of capitals.
C6_ChunksPassTheFilters ==
    hpc = "done" =>
        \A c \in ReturnedContents :
            /\ Len(c) >= 120
            /\ LET lowered == Lower(c)
               IN  \A k \in 1..Len(BOILERPLATE_KEYWORDS) : ~Contains(lowered, BOILERPLATE_KEYWORDS[k])

\* Chunks were returned from the page that holds a paragraph of every kind; one
\* of them is exactly 120 characters long.
C6_Witness ==
    /\ hpc = "done"
    /\ \E c \in ReturnedContents : Len(c) = 120
    /\ \E c \in ReturnedContents : Len(c) > 120

\* C8: the output holds one record per input record, in the input's order, with
\* claim_id, claim and label copied, and the chunks of a record that is not
\* debatable are empty whatever the harvesting of the others did.
C8_OneRecordPerInputInOrder ==
    /\ Len(enriched_results) <= Len(claims)
    /\ hpc = "done" => Len(enriched_results) = Len(claims)
    /\ hpc \in {"search_pro", "search_con", "results", "append"} => Len(enriched_results) = item - 1
    /\ \A k \in 1..Len(enriched_results) :
          /\ enriched_results[k].claim_id = claims[k].claim_id
          /\ enriched_results[k].claim = claims[k].claim
          /\ enriched_results[k].label = claims[k].label
          /\ claims[k].label # "debatable" => enriched_results[k].evidence_chunks = << >>

\* Two records were returned in order: a non-debatable one, empty, after a
\* debatable one whose searches gave results but whose fetches gave nothing.
C8_Witness ==
    /\ hpc = "done" /\ Len(enriched_results) = 2
    /\ enriched_results[1].claim_id = 1 /\ enriched_results[1].label = "debatable"
    /\ enriched_results[1].evidence_chunks = << >>
    /\ \E e \in Range(fetch_log) : e.item = 1
    /\ enriched_results[2].claim_id = 2 /\ enriched_results[2].label = "non-debatable"

\* What the claim calls a rejected url: None or empty, ending with a blocked
\* extension, or holding a blocked domain, in any mix of capitals.
EndsWith(url, ext) ==
    /\ Len(url) >= Len(ext)
    /\ Mentions(SubSeq(url, Len(url) - Len(ext) + 1, Len(url)), ext)

RejectedUrl(url) ==
    \/ url = NoUrl \/ url = << >>
    \/ \E k \in 1..Len(BLOCKED_EXTENSIONS) : EndsWith(url, BLOCKED_EXTENSIONS[k])
    \/ \E k \in 1..Len(BLOCKED_DOMAINS) : Mentions(url, BLOCKED_DOMAINS[k])

SearchedUrls ==
    UNION { { o.results[k].href : k \in 1..Len(o.results) } : o \in SearchOutcomes }

UrlsOf(chunks) == { chunks[k].url : k \in 1..Len(chunks) }

RejectedIsSkipped ==
    (hpc = "results" /\ pos <= Len(combined_results) /\ RejectedUrl(combined_results[pos].url)) =>
        /\ pos' = pos + 1 /\ hpc' = "results"
        /\ UNCHANGED <<seen_urls, evidence_chunks, fetch_log, enriched_results>>

\* C12: a url that is None or empty, ends with a blocked extension or holds a
\* blocked domain is rejected by _is_valid_url; the loop passes over it, it is
\* never fetched, never put in seen_urls and no chunk carries it.
C12_RejectedUrlNeverFetched ==
    /\ [](/\ \A url \in SearchedUrls : RejectedUrl(url) => ~_is_valid_url(url)
          /\ \A e \in Range(fetch_log) : ~RejectedUrl(e.url)
          /\ \A url \in seen_urls : ~RejectedUrl(url)
          /\ \A url \in UrlsOf(evidence_chunks) : ~RejectedUrl(url)
          /\ \A k \in 1..Len(enriched_results) :
                \A url \in UrlsOf(enriched_results[k].evidence_chunks) : ~RejectedUrl(url))
    /\ [][RejectedIsSkipped]_vars

\* The results of a record held a None url, an empty one, one of a blocked domain
\* and one ending in .PDF; the loop is through, and only the fifth result was
\* fetched and gave chunks.
C12_Witness ==
    /\ hpc = "results" /\ pos > Len(combined_results)
    /\ {NoUrl, UrlEmpty, UrlBlocked, UrlPdfEnd} \subseteq { combined_results[k].url : k \in 1..Len(combined_results) }
    /\ seen_urls = {UrlB}
    /\ evidence_chunks # << >>
    /\ \A ch \in Range(evidence_chunks) : ch.url = UrlB

IsPrefix(a, b) == Len(a) <= Len(b) /\ SubSeq(b, 1, Len(a)) = a

\* A search that failed, and a fetch that failed: an exception, or a status
\* outside 200..299.
FailedSearch(c) == c.fn = "search" /\ c.kind = "exception"
FailedFetch(c) == c.fn = "fetch" /\ (c.kind = "exception" \/ c.status \notin 200..299)

\* The step of a failed search leaves an empty result list and goes on to the
\* next search or to the results; the step of a failed fetch adds no chunk and
\* goes on to the next result.
FailureIsPassedOver ==
    /\ (FailedSearch(last_call') /\ hpc = "search_pro") =>
          (hpc' = "search_con" /\ pro_results' = << >>)
    /\ (FailedSearch(last_call') /\ hpc = "search_con") =>
          (hpc' = "results" /\ pos' = 1 /\ combined_results' = pro_results)
    /\ FailedFetch(last_call') =>
          /\ hpc' = "results" /\ pos' = pos + 1
          /\ evidence_chunks' = evidence_chunks
          /\ seen_urls' = seen_urls \cup {combined_results[pos].url}

\* Nothing gathered is lost: the chunks of the record in hand only grow until
\* they are put in its output record, and the output only grows.
GatheredIsKept ==
    /\ IsPrefix(enriched_results, enriched_results')
    /\ hpc \in {"search_pro", "search_con", "results"} =>
          \/ hpc' # "item" /\ IsPrefix(evidence_chunks, evidence_chunks')
          \/ /\ hpc' = "item" /\ Len(enriched_results') = item
              /\ enriched_results'[item].evidence_chunks = evidence_chunks

\* C13: a failed search leaves an empty result list and a failed fetch no chunk
\* for its url; the loop goes on with the next result and the next record, no
\* exception leaves retrieve_evidence_chunks, and the chunks gathered before
\* are kept.
C13_FailuresDegradeOnly ==
    /\ [](hpc # "raised")
    /\ [](hpc = "done" => Len(enriched_results) = Len(claims))
    /\ [][FailureIsPassedOver]_vars
    /\ [][GatheredIsKept]_vars

\* The first of two records is in hand: its pro search gave nothing, a page of
\* its con results gave chunks, and the fetch of the next one has just failed
\* with status 404; the chunks are still there.
C13_Witness ==
    /\ hpc = "results" /\ item = 1 /\ Len(claims) = 2
    /\ pro_results = << >>
    /\ last_call = [fn |-> "fetch", kind |-> "response", status |-> 404]
    /\ evidence_chunks # << >>
    /\ fetch_log = << [item |-> 1, url |-> UrlA], [item |-> 1, url |-> UrlB] >>
    /\ \A ch \in Range(evidence_chunks) : ch.url = UrlA

\* The contents of the chunks of a list that carry a url, in the list's order.
ContentsOf(chunks, url) ==
    LET mine == SelectSeq(chunks, LAMBDA ch : ch.url = url)
    IN  [k \in 1..Len(mine) |-> mine[k].content]

\* The paragraphs of PageMixed that pass the filters, cleaned, in document order.
QualifyingOfPageMixed ==
    << Rep("b", 120), Rep("e", 60) \o <<" ">> \o Rep("e", 60) >>
    \o [k \in 1..Len(TailLetters) |-> Rep(TailLetters[k], 120)]

\* At most 12 chunks carry one url, and they are the first qualifying paragraphs
\* of its page in document order.
CappedPerUrl(chunks) ==
    \A url \in UrlsOf(chunks) :
        LET mine == ContentsOf(chunks, url)
        IN  /\ Len(mine) <= 12
            /\ \A k \in 1..Len(mine) : mine[k] = QualifyingOfPageMixed[k]

\* The place of the first result that carries a url.
FirstPos(results, url) ==
    CHOOSE k \in 1..Len(results) :
        results[k].url = url /\ \A j \in 1..(k - 1) : results[j].url # url

\* C14: no more than 12 chunks are taken from one page, the first 12 qualifying
\* paragraphs in document order, so a url carries at most 12 chunks of a record;
\* the chunks of a record follow the order in which their urls are met in the
\* results, the pro query's before the con query's.
C14_PageCapAndEncounterOrder ==
    /\ \A o \in PageOutcomes : Len(ExtractedChunks[o].value) <= 12
    /\ CappedPerUrl(evidence_chunks)
    /\ \A r \in 1..Len(enriched_results) : CappedPerUrl(enriched_results[r].evidence_chunks)
    /\ hpc = "results" =>
          /\ SubSeq(combined_results, 1, Len(pro_results)) = pro_results
          /\ \A url \in UrlsOf(evidence_chunks) : \E k \in 1..(pos - 1) : combined_results[k].url = url
          /\ \A a \in 2..Len(evidence_chunks) :
                \/ evidence_chunks[a - 1].url = evidence_chunks[a].url
                \/ FirstPos(combined_results, evidence_chunks[a - 1].url)
                      < FirstPos(combined_results, evidence_chunks[a].url)

\* The loop is through the results of a record: a page of the pro results and a
\* page of the con results each held fourteen qualifying paragraphs, and each
\* gave its first twelve, the pro page's before the con page's.
C14_Witness ==
    /\ hpc = "results" /\ pos > Len(combined_results)
    /\ Len(QualifyingOfPageMixed) = 14
    /\ Len(evidence_chunks) = 24
    /\ \E k \in 1..Len(pro_results) : pro_results[k].url = UrlB
    /\ \A k \in 1..Len(pro_results) : pro_results[k].url # UrlA
    /\ \A k \in 1..12 : evidence_chunks[k].url = UrlB /\ evidence_chunks[12 + k].url = UrlA
    /\ ContentsOf(evidence_chunks, UrlA) = SubSeq(QualifyingOfPageMixed, 1, 12)

=============================================================================
